---- MODULE Spec2Model ----
(***************************************************************************)
(* Job subsystem of the land-parcel research tool: the parcel job          *)
(* collection, the single worker thread (worker.py), the HTTP handlers     *)
(* that create, cancel and delete jobs (routes/jobs.py), the startup       *)
(* recovery of the API process (main.py) and the cleanup scheduler thread  *)
(* (scheduler.py).                                                         *)
(*                                                                         *)
(* Every database call is one atomic step.  The worker runs on its own     *)
(* thread, so its database calls interleave with the calls of the HTTP     *)
(* handlers; cancel_job reads the record and writes it in two calls.       *)
(*                                                                         *)
(* The functions the handlers and the scrapers call on their data          *)
(* (utils/file_parser.py, utils/label_exporter.py, the scrapers' helpers)  *)
(* are operators; each is run on bounded inputs by a specification of its  *)
(* own, whose initial states draw the arguments of one call.               *)
(***************************************************************************)
EXTENDS Integers, FiniteSets, Sequences, TLC

\* ---------------------------------------------------------------- bounds
MaxJobs == 2        \* jobs submitted in one behaviour
MaxParcels == 2     \* identifiers in one uploaded parcel file
MaxPostCancel == 2  \* cap of the counter of parcels scraped after a cancel
MaxEvents == 4      \* external events in one behaviour: submissions, cancel and
                    \* delete requests, process stops, raised exceptions
MaxLines == 3       \* lines of a parcel file given to parse_txt
MaxChunks == 5      \* pieces an identifier given to extract_parcel_id is made of
MaxTokens == 3      \* words and separators of an address given to _parse_address
MaxDocs == 2        \* documents of the record cards folder of a job
MaxRequests == 2    \* HTTP requests for documents in one behaviour
MaxRuns == 2        \* runs of the job, the re-runs after a process stop included
MaxScraped == 6     \* identifiers of the file one call of scrape_parcels reads
MaxRows == 2        \* rows of the scraped spreadsheet one export joins
MaxLinks == 3       \* Property Record Card links on the page of one parcel
MaxCount == 3       \* largest max_count given to validate_parcel_ids

JobIds == 1..MaxJobs
NoJob == 0

\* ------------------------------------------------------- program constants
Statuses == {"pending", "processing", "completed", "failed", "cancelled"}

\* detect_platform results used by the model and the table of get_scraper
DetectedPlatforms == {"beacon", "wthgis"}
SupportedPlatforms == {"thinkgis", "beacon"}

\* what scrape_parcels writes in the Status column for each outcome of a parcel
RowStatus == [ok |-> "SUCCESS", not_found |-> "NOT_FOUND", error |-> "ERROR"]
NoRow == ""

\* settings.JOB_RETENTION_DAYS; the clock of the model counts days
JOB_RETENTION_DAYS == 3

\* blobs create_parcel_job stores under jobs/<id>/
InputBlobs == {"parcels.txt", "shapefiles.zip"}

\* keys of the dict returned by BeaconScraper.scrape_parcels
BeaconScrapedKeys == {"excel_path", "pdfs_dir", "total", "processed", "failed"}
\* keys of the dict returned by LabelExporter.export
ExportOutputKeys == {"dxf_path"}

VARIABLES
    jobs,          \* parcelJobsCollection: job id -> record
    files,         \* job id -> what was submitted: the platform of the portal
                   \* and the identifier lines of the parcel file, in order
    blobs,         \* job id -> blobs stored under jobs/<id>/
    dirs,          \* ids of the jobs whose local directory parcel_jobs/<id> exists
    nextId,        \* number of jobs created so far + 1 (stands for uuid4)
    now,           \* datetime.utcnow(), as a counter
    phase,         \* "down", "recovered" (startup reset done), "up" (worker started)
    wpc,           \* position of the worker thread
    wjob,          \* id of the job the worker holds, NoJob if none
    widx,          \* parcels of the file the scrape loop has gone through
    row,           \* Status cell of the spreadsheet row the loop wrote last
    cancelReq,     \* id of the job a cancel_job call has checked and not yet written,
                   \* or Deleting(id) for a delete_job call between its two removals
    spc,           \* position of the cleanup scheduler thread
    old_jobs,      \* ids of the jobs its sweep found and has not handled yet
    found,         \* history: ids of the jobs the sweep under way found
    swept,         \* history: the passes of the last sweep, <<id, outcome>> in order
    events,        \* external events so far
    postCancel,    \* history: parcels scraped for wjob while its status was cancelled
    wCancelled,    \* history: cancelled was written on wjob since the worker claimed it
    passedOver,    \* history: a pending job created later waited when wjob was claimed
    call,          \* the function call under way: its name and its arguments
    result,        \* what the call returned or raised
    disk,          \* content of each document path of the record cards folder
    net            \* politeness delays slept, HTTP requests made, runs started

\* the variables of the job subsystem
program == <<jobs, files, blobs, dirs, nextId, now, phase, wpc, wjob, widx, row,
             cancelReq, spc, old_jobs, found, swept, events, postCancel, wCancelled,
             passedOver>>

\* the variables of a call of one function on given arguments
unit == <<call, result, disk, net>>

\* what a call of a function on data leaves alone
world == <<program, disk, net>>

vars == <<program, unit>>

NoCall == [fn |-> ""]
NoResult == [raised |-> "", value |-> <<>>, returned |-> FALSE]
Returns(v) == [raised |-> "", value |-> v, returned |-> TRUE]
Raises(detail) == [raised |-> detail, value |-> <<>>, returned |-> FALSE]

\* a step caused from outside the program (a request, a process stop, an
\* exception raised by a portal, the store or the network) counts as an
\* event; a behaviour has at most MaxEvents of them
ExternalEvents(n) == events + n <= MaxEvents /\ events' = events + n /\ UNCHANGED unit
ExternalEvent == ExternalEvents(1)
ProgramStep == events' = events /\ UNCHANGED unit

\* ------------------------------------------------------------ job records
\* ParcelJob(...) as built by create_parcel_job: the model's fields and defaults
NewJob(created, count) ==
    [status |-> "pending",
     created_at |-> created,
     started_at |-> FALSE,        \* TRUE: the timestamp is set
     completed_at |-> FALSE,      \* TRUE: the timestamp is set
     results |-> {},              \* items of the results dict
     error_message |-> FALSE,     \* TRUE: a message is stored
     parcel_count |-> count,
     parcels_completed |-> 0,
     parcels_failed |-> 0]

\* $set of a patch on one document
ApplySet(doc, patch) ==
    [f \in DOMAIN doc |-> IF f \in DOMAIN patch THEN patch[f] ELSE doc[f]]

\* collection.update_one({"_id": id}, {"$set": patch}); no upsert
update_one(coll, id, patch) ==
    IF id \in DOMAIN coll
    THEN [coll EXCEPT ![id] = ApplySet(coll[id], patch)]
    ELSE coll

\* the same call with an empty filter: every document is patched
update_many_unfiltered(coll, st, patch) ==
    [id \in DOMAIN coll |-> ApplySet(coll[id], patch)]

\* the same call exchanging the two statuses instead of setting one
update_many_exchanging(coll, st, patch) ==
    [id \in DOMAIN coll |->
        IF coll[id].status = st THEN ApplySet(coll[id], patch)
        ELSE IF coll[id].status = patch.status THEN ApplySet(coll[id], [status |-> st])
        ELSE coll[id]]

\* collection.update_many({"status": st}, {"$set": patch})
update_many(coll, st, patch) ==
    [id \in DOMAIN coll |->
        IF coll[id].status = st THEN ApplySet(coll[id], patch) ELSE coll[id]]

\* collection.delete_one({"_id": id})
delete_one(coll, id) == [k \in DOMAIN coll \ {id} |-> coll[k]]

PendingIds(coll) == {id \in DOMAIN coll : coll[id].status = "pending"}

\* the same call without its sort argument: any pending document
FirstPendingUnsorted(coll) == PendingIds(coll)

\* the documents find_one_and_update({"status": "pending"}, sort created_at asc)
\* may pick: the pending ones with the smallest created_at
FirstPending(coll) ==
    {id \in PendingIds(coll) :
        \A k \in PendingIds(coll) : coll[id].created_at <= coll[k].created_at}

\* a blob name that leaves the folder of the job
blob_name_outside(job_id, file) == <<"jobs", (job_id % MaxJobs) + 1, file>>

\* _upload_results: job_folder = f"jobs/{job_id}", blob_name =
\* f"{job_folder}/<file>"
blob_name(job_id, file) == <<"jobs", job_id, file>>

\* AzureDB.get_public_url: the container URL followed by the blob name
get_public_url(name) == <<"https", "container">> \o name

\* AzureDB.upload_file for a set of blob names: each blob is added under the
\* folder its name gives
upload_files(container, names) ==
    [f \in DOMAIN container |->
        container[f] \cup {nm[3] : nm \in {x \in names : x[2] = f}}]

\* the same function looking up keys the scraper and the exporter do not return
upload_results_wrong_keys(job_id, output_files, scraped_data) ==
    (IF "excel" \in scraped_data
        THEN {<<"excel_url", get_public_url(blob_name(job_id, "parcels_enriched.xlsx"))>>}
        ELSE {})
    \cup (IF "dxf" \in output_files
        THEN {<<"dxf_url", get_public_url(blob_name(job_id, "labels.dxf"))>>}
        ELSE {})
    \cup (IF "pdfs" \in scraped_data
        THEN {<<"prc_zip_url", get_public_url(blob_name(job_id, "PRC.zip"))>>}
        ELSE {})

\* ParcelJobWorker._upload_results: the results dict it returns, as the set
\* of its <<key, URL>> items
upload_results(job_id, output_files, scraped_data) ==
    (IF "excel_path" \in scraped_data
        THEN {<<"excel_url", get_public_url(blob_name(job_id, "parcels_enriched.xlsx"))>>}
        ELSE {})
    \cup (IF "dxf_path" \in output_files
        THEN {<<"dxf_url", get_public_url(blob_name(job_id, "labels.dxf"))>>}
        ELSE {})
    \cup (IF "pdfs_dir" \in scraped_data
        THEN {<<"prc_zip_url", get_public_url(blob_name(job_id, "PRC.zip"))>>}
        ELSE {})

\* blob names _upload_results writes, in the order it writes them
UploadOrder == <<"parcels_enriched.xlsx", "labels.dxf", "PRC.zip">>
UploadedPrefix(n) == {UploadOrder[i] : i \in 1..n}

\* ------------------------------------------------------------ parcel files
ParcelIds == 1..MaxParcels

\* a removal of duplicates that keeps the last occurrence of each identifier
RECURSIVE validate_parcel_ids_keeping_last(_)
validate_parcel_ids_keeping_last(parcel_ids) ==
    IF parcel_ids = <<>> THEN <<>>
    ELSE LET unique_parcels == validate_parcel_ids_keeping_last(Tail(parcel_ids))
         IN  IF \E i \in 2..Len(parcel_ids) : parcel_ids[i] = Head(parcel_ids)
             THEN unique_parcels
             ELSE <<Head(parcel_ids)>> \o unique_parcels

\* file_parser.validate_parcel_ids for a non-empty list within max_count:
\* duplicates removed, first occurrences kept in order
RECURSIVE validate_parcel_ids(_)
validate_parcel_ids(parcel_ids) ==
    IF parcel_ids = <<>> THEN <<>>
    ELSE LET n == Len(parcel_ids)
             unique_parcels == validate_parcel_ids(SubSeq(parcel_ids, 1, n - 1))
         IN  IF \E i \in 1..(n - 1) : parcel_ids[i] = parcel_ids[n]
             THEN unique_parcels
             ELSE Append(unique_parcels, parcel_ids[n])

\* parcel files whose identifiers are all different: 1, 2, ..., len
DistinctFiles == {[i \in 1..len |-> i] : len \in 1..MaxParcels}

\* parcel files that repeat an identifier; identifiers are named in the
\* order of their first occurrence
RepeatingFiles ==
    {ids \in UNION {[1..len -> ParcelIds] : len \in 2..MaxParcels} :
        /\ \E i, k \in DOMAIN ids : i < k /\ ids[i] = ids[k]
        /\ \A k \in DOMAIN ids :
              ids[k] = 1 \/ \E i \in 1..(k - 1) : ids[i] = ids[k] - 1}

\* BaseScraper.read_parcel_ids on a stored text file: its lines stripped,
\* the empty ones left out, nothing else removed
read_parcel_ids(file) == file.ids

\* the list BaseScraper.read_parcel_ids returns for the stored file of a job:
\* its identifier lines, repeated ones included
file_len(j) == Len(files[j].ids)

\* ------------------------------------------------------------------- Init
InitProgram ==
    /\ jobs = <<>>
    /\ files = [j \in JobIds |-> [platform |-> "beacon", ids |-> <<>>]]
    /\ blobs = [j \in JobIds |-> {}]
    /\ dirs = {}
    /\ spc = "off"
    /\ old_jobs = {}
    /\ found = {}
    /\ swept = <<>>
    /\ nextId = 1
    /\ now = 0
    /\ phase = "down"
    /\ wpc = "off"
    /\ wjob = NoJob
    /\ widx = 0
    /\ row = NoRow
    /\ cancelReq = NoJob
    /\ postCancel = 0
    /\ wCancelled = FALSE
    /\ passedOver = FALSE
    /\ events = 0

\* the record cards folder before a job runs, no request made
InitWorld ==
    /\ disk = [p \in 1..MaxDocs |-> "absent"]
    /\ net = [sleeps |-> 0, gets |-> 0, runs |-> 1]

Init == InitProgram /\ InitWorld /\ call = NoCall /\ result = NoResult

hist == <<postCancel, wCancelled, passedOver>>
worker == <<wpc, wjob, widx, row>>
proc == <<phase>>
store == <<files, blobs, dirs, nextId, now>>
sweeper == <<spc, old_jobs, found, swept>>

\* a reset that also runs while the worker of the process is running
recovery_at_any_time(p) == p \in {"down", "up"}

\* startup_event runs once, when the process starts, and resets the stale
\* jobs before it starts the worker
recovery_runs(p) == p = "down"

\* ------------------------------------------------------- process lifecycle
\* startup_event, first part: reset stale processing jobs; a failure of the
\* database call is caught and startup goes on
StartupRecovery ==
    /\ recovery_runs(phase)
    /\ \/ jobs' = update_many(jobs, "processing", [status |-> "pending"]) /\ ProgramStep
       \/ jobs' = jobs /\ ExternalEvent
    /\ phase' = "recovered"
    /\ UNCHANGED <<store, worker, cancelReq, sweeper, hist>>

\* startup_event, second part: ParcelJobWorker.start and
\* JobCleanupScheduler.start
WorkerStart ==
    /\ phase = "recovered"
    /\ phase' = "up"
    /\ wpc' = "idle"
    /\ spc' = "idle"
    /\ old_jobs' = {}
    /\ found' = {}
    /\ swept' = <<>>
    /\ ProgramStep
    /\ UNCHANGED <<jobs, store, wjob, widx, row, cancelReq, hist>>

\* the process stops (deploy, kill, crash): the daemon threads and the
\* requests in flight die with it, the database, the blob store and the
\* local directories stay
ProcessStop ==
    /\ phase = "up"
    /\ ExternalEvent
    /\ phase' = "down"
    /\ wpc' = "off"
    /\ spc' = "off"
    /\ old_jobs' = {}
    /\ found' = {}
    /\ swept' = <<>>
    /\ wjob' = NoJob
    /\ widx' = 0
    /\ row' = NoRow
    /\ cancelReq' = NoJob
    /\ postCancel' = 0
    /\ wCancelled' = FALSE
    /\ passedOver' = FALSE
    /\ UNCHANGED <<jobs, store>>

\* ------------------------------------------------------------ HTTP handlers
\* The handlers are coroutines of one event loop and never await between
\* their database calls: one handler runs at a time, next to the worker thread.

\* create_parcel_job: store the uploaded file, insert a pending job
CreateJob ==
    /\ phase = "up"
    /\ cancelReq = NoJob
    /\ nextId <= MaxJobs
    /\ \E platform \in DetectedPlatforms, ids \in DistinctFiles :
          /\ jobs' = jobs @@ (nextId :> NewJob(now, Len(validate_parcel_ids(ids))))
          /\ files' = [files EXCEPT ![nextId] = [platform |-> platform, ids |-> ids]]
    /\ blobs' = [blobs EXCEPT ![nextId] = InputBlobs]
    /\ dirs' = dirs \cup {nextId}
    /\ now' = now + 1      \* the next job reads a later clock
    /\ nextId' = nextId + 1
    /\ ExternalEvent
    /\ UNCHANGED <<proc, sweeper, worker, cancelReq, hist>>

\* create_parcel_job for a first submission whose parcel file repeats an
\* identifier
CreateJobRepeating ==
    /\ phase = "up"
    /\ cancelReq = NoJob
    /\ nextId = 1
    /\ \E ids \in RepeatingFiles :
          /\ jobs' = jobs @@ (nextId :> NewJob(now, Len(validate_parcel_ids(ids))))
          /\ files' = [files EXCEPT ![nextId] = [platform |-> "beacon", ids |-> ids]]
    /\ blobs' = [blobs EXCEPT ![nextId] = InputBlobs]
    /\ dirs' = dirs \cup {nextId}
    /\ now' = now + 1
    /\ nextId' = nextId + 1
    /\ ExternalEvent
    /\ UNCHANGED <<proc, sweeper, worker, cancelReq, hist>>

\* create_parcel_job for a parcel file of one identifier
CreateJobOneParcel ==
    /\ phase = "up"
    /\ cancelReq = NoJob
    /\ nextId <= MaxJobs
    /\ \E platform \in DetectedPlatforms :
          /\ jobs' = jobs @@ (nextId :> NewJob(now, Len(validate_parcel_ids(<<1>>))))
          /\ files' = [files EXCEPT ![nextId] = [platform |-> platform, ids |-> <<1>>]]
    /\ blobs' = [blobs EXCEPT ![nextId] = InputBlobs]
    /\ dirs' = dirs \cup {nextId}
    /\ now' = now + 1
    /\ nextId' = nextId + 1
    /\ ExternalEvent
    /\ UNCHANGED <<proc, sweeper, worker, cancelReq, hist>>

\* cancel_job, first call: find_one and the status check
CancelCheck(j) ==
    /\ phase = "up"
    /\ cancelReq = NoJob
    /\ j \in DOMAIN jobs
    /\ jobs[j].status \in {"pending", "processing"}
    /\ cancelReq' = j
    /\ ExternalEvent
    /\ UNCHANGED <<jobs, store, proc, sweeper, worker, hist>>

\* cancel_job, second call: update_one to cancelled
CancelWrite(j) ==
    /\ phase = "up"
    /\ cancelReq = j
    /\ jobs' = update_one(jobs, j, [status |-> "cancelled", completed_at |-> TRUE])
    /\ cancelReq' = NoJob
    /\ wCancelled' = (wCancelled \/ (wjob = j /\ j \in DOMAIN jobs))
    /\ ProgramStep
    /\ UNCHANGED <<store, proc, sweeper, worker, postCancel, passedOver>>

\* what delete_job and _cleanup_old_jobs do after they deleted the record of
\* a job: delete the blobs under jobs/<id>/, then the local directory; an
\* error in either is caught and leaves what it was deleting
DeleteFiles(j, outcome) ==
    /\ blobs' = IF outcome = "blob_error" THEN blobs ELSE [blobs EXCEPT ![j] = {}]
    /\ dirs' = IF outcome = "dir_error" THEN dirs ELSE dirs \ {j}

\* delete_job: delete the record, the blobs and the local directory
DeleteJob(j) ==
    /\ phase = "up"
    /\ cancelReq = NoJob
    /\ j \in DOMAIN jobs
    /\ jobs' = delete_one(jobs, j)
    /\ \E outcome \in {"ok", "blob_error", "dir_error"} :
          /\ DeleteFiles(j, outcome)
          /\ ExternalEvents(IF outcome = "ok" THEN 1 ELSE 2)  \* the request, the error
    /\ UNCHANGED <<files, nextId, now, proc, sweeper, worker, cancelReq, hist>>

\* the request in flight is a delete_job call for job j
Deleting(j) == 0 - j

\* delete_job up to the end of its loop over the blobs: the record and the
\* blobs under jobs/<id>/ are deleted.  The calls block the event loop, not
\* the worker thread.
DeleteJobBlobs(j) ==
    /\ phase = "up"
    /\ cancelReq = NoJob
    /\ j \in DOMAIN jobs
    /\ jobs' = delete_one(jobs, j)
    /\ blobs' = [blobs EXCEPT ![j] = {}]
    /\ cancelReq' = Deleting(j)
    /\ ExternalEvent
    /\ UNCHANGED <<files, dirs, nextId, now, proc, sweeper, worker, hist>>

\* delete_job from there to its return: the local directory is removed
DeleteJobDir(j) ==
    /\ cancelReq = Deleting(j)
    /\ dirs' = dirs \ {j}
    /\ cancelReq' = NoJob
    /\ ProgramStep
    /\ UNCHANGED <<jobs, files, blobs, nextId, now, proc, sweeper, worker, hist>>

\* ------------------------------------------------------------------ worker
\* _run: find_one_and_update of the oldest pending job
Claim ==
    /\ wpc = "idle"
    /\ \E j \in FirstPending(jobs) :
          /\ jobs' = update_one(jobs, j, [status |-> "processing", started_at |-> TRUE])
          /\ wjob' = j
          /\ passedOver' = \E k \in PendingIds(jobs) :
                               jobs[k].created_at > jobs[j].created_at
    /\ wpc' = "check_start"
    /\ widx' = 0
    /\ row' = NoRow
    /\ postCancel' = 0
    /\ wCancelled' = FALSE
    /\ ProgramStep
    /\ UNCHANGED <<store, proc, sweeper, cancelReq>>

IsCancelled(j) == j \in DOMAIN jobs /\ jobs[j].status = "cancelled"

\* a loop that ends with the job it ran
ReturnEndsLoop ==
    /\ wpc' = "off"
    /\ wjob' = NoJob
    /\ widx' = 0
    /\ row' = NoRow
    /\ postCancel' = 0
    /\ wCancelled' = FALSE
    /\ passedOver' = FALSE

\* _process_job returns (or its exception is caught in _run): back to the
\* top of the while loop of _run
ReturnToLoop ==
    /\ wpc' = "idle"
    /\ wjob' = NoJob
    /\ widx' = 0
    /\ row' = NoRow
    /\ postCancel' = 0
    /\ wCancelled' = FALSE
    /\ passedOver' = FALSE

\* the worker goes on with the job; the workbook of scrape_parcels is a
\* local of that call
Continue(next) ==
    /\ wpc' = next
    /\ row' = NoRow
    /\ UNCHANGED <<wjob, widx, hist>>

\* _process_job lines 114-130: return if the job was cancelled before
\* starting; otherwise make sure the input files are in the local directory,
\* downloading them from the blob store if they are not
CheckCancelledBeforeStart ==
    /\ wpc = "check_start"
    /\ IF IsCancelled(wjob)
       THEN ReturnToLoop /\ dirs' = dirs
       ELSE IF wjob \in dirs
       THEN Continue("status_parse") /\ dirs' = dirs
       ELSE IF InputBlobs \subseteq blobs[wjob]
       THEN Continue("status_parse") /\ dirs' = dirs \cup {wjob}
       ELSE Continue("fail") /\ dirs' = dirs
    /\ ProgramStep
    /\ UNCHANGED <<jobs, files, blobs, nextId, now, proc, sweeper, cancelReq>>

\* _update_job_status(job_id, "processing", step), called at four places
UpdateJobStatus(at, next) ==
    /\ wpc = at
    /\ jobs' = update_one(jobs, wjob, [status |-> "processing"])
    /\ Continue(next)
    /\ ProgramStep
    /\ UNCHANGED <<store, proc, sweeper, cancelReq>>

\* line 133, then get_scraper(job.platform), which raises for a platform
\* that is not in its table
StatusParsing ==
    UpdateJobStatus("status_parse",
        IF files[wjob].platform \in SupportedPlatforms THEN "status_scrape" ELSE "fail")

\* line 139
StatusScraping == UpdateJobStatus("status_scrape", "scrape")

\* BeaconScraper.scrape_parcels, one pass of the loop over the identifiers
\* of the file: the outcome goes to the Status cell of the row; ok and
\* not_found report progress (idx) through _update_progress, an exception
\* skips the report
ScrapeParcel ==
    /\ wpc = "scrape"
    /\ widx < file_len(wjob)
    /\ widx = 0 => wjob \in dirs       \* read_parcel_ids opens the parcel file
    /\ \E outcome \in {"ok", "not_found", "error"} :
          /\ row' = RowStatus[outcome]
          /\ IF outcome = "error"
             THEN jobs' = jobs /\ ExternalEvent
             ELSE /\ jobs' = update_one(jobs, wjob, [parcels_completed |-> widx + 1])
                  /\ ProgramStep
    /\ widx' = widx + 1
    /\ postCancel' = IF IsCancelled(wjob) /\ postCancel < MaxPostCancel
                     THEN postCancel + 1 ELSE postCancel
    /\ UNCHANGED <<store, proc, sweeper, wpc, wjob, cancelReq, wCancelled, passedOver>>

\* scrape_parcels saves the workbook and returns; lines 150-153: return if
\* cancelled
CheckCancelledAfterScrape ==
    /\ wpc = "scrape"
    /\ widx = file_len(wjob)
    /\ wjob \in dirs
    /\ IF IsCancelled(wjob) THEN ReturnToLoop ELSE Continue("status_export")
    /\ ProgramStep
    /\ UNCHANGED <<jobs, store, proc, sweeper, cancelReq>>

\* line 156
StatusExporting == UpdateJobStatus("status_export", "export")

\* LabelExporter.export returned
Export ==
    /\ wpc = "export"
    /\ wjob \in dirs
    /\ Continue("status_upload")
    /\ ProgramStep
    /\ UNCHANGED <<jobs, store, proc, sweeper, cancelReq>>

\* line 168
StatusUploading == UpdateJobStatus("status_upload", "upload")

\* _upload_results: three uploads in a row; a failing upload raises and
\* leaves the blobs written before it
UploadResults ==
    /\ wpc = "upload"
    /\ wjob \in dirs
    /\ \E n \in 0..3 :
          /\ blobs' = upload_files(blobs, {blob_name(wjob, f) : f \in UploadedPrefix(n)})
          /\ Continue(IF n = 3 THEN "complete" ELSE "fail")
          /\ IF n = 3 THEN ProgramStep ELSE ExternalEvent
    /\ UNCHANGED <<jobs, files, dirs, nextId, now, proc, sweeper, cancelReq>>

\* a step that opens a file of the local directory of the job raises when
\* the directory is gone: read_parcel_ids, the save of the workbook, the
\* label export, the first upload
LocalFilesMissing ==
    /\ \/ wpc = "scrape" /\ widx \in {0, file_len(wjob)}
       \/ wpc = "export"
       \/ wpc = "upload"
    /\ wjob \notin dirs
    /\ Continue("fail")
    /\ ProgramStep
    /\ UNCHANGED <<jobs, store, proc, sweeper, cancelReq>>

\* lines 173-181: mark as completed
Complete ==
    /\ wpc = "complete"
    /\ jobs' = update_one(jobs, wjob,
                  [status |-> "completed",
                   results |-> upload_results(wjob, ExportOutputKeys, BeaconScrapedKeys),
                   completed_at |-> TRUE])
    /\ ReturnToLoop
    /\ ProgramStep
    /\ UNCHANGED <<store, proc, sweeper, cancelReq>>

\* a step inside the try block raises: the input download (before line 133),
\* scrape_parcels before its loop or at its final save, the label export
StepRaises ==
    /\ \/ wpc = "status_parse"
       \/ wpc = "scrape" /\ widx \in {0, file_len(wjob)}
       \/ wpc = "export"
    /\ Continue("fail")
    /\ ExternalEvent
    /\ UNCHANGED <<jobs, store, proc, sweeper, cancelReq>>

\* lines 185-197: the handler of _process_job marks the job failed
Fail ==
    /\ wpc = "fail"
    /\ jobs' = update_one(jobs, wjob,
                  [status |-> "failed", error_message |-> TRUE, completed_at |-> TRUE])
    /\ ReturnToLoop
    /\ ProgramStep
    /\ UNCHANGED <<store, proc, sweeper, cancelReq>>

\* the update_one of the handler raises: the exception leaves _process_job,
\* _run lines 95-98 catch it, sleep and go on polling
FailWriteRaises ==
    /\ wpc = "fail"
    /\ ReturnToLoop
    /\ ExternalEvent
    /\ UNCHANGED <<jobs, store, proc, sweeper, cancelReq>>

\* ------------------------------------------------------- cleanup scheduler
\* more than the retention period passes
RetentionElapses ==
    /\ now' = now + JOB_RETENTION_DAYS + 1
    /\ ExternalEvent
    /\ UNCHANGED <<jobs, files, blobs, dirs, nextId, proc, sweeper, worker, cancelReq, hist>>

\* the ids find({"created_at": {"$lt": cutoff_time}}) returns
OldJobs == {j \in DOMAIN jobs : jobs[j].created_at < now - JOB_RETENTION_DAYS}

\* _cleanup_old_jobs lines 72-85: list the old jobs (with none it returns)
SweepFind ==
    /\ spc = "idle"
    /\ OldJobs # {}
    /\ old_jobs' = OldJobs
    /\ found' = OldJobs
    /\ swept' = <<>>
    /\ spc' = "sweeping"
    /\ ProgramStep
    /\ UNCHANGED <<jobs, store, proc, worker, cancelReq, hist>>

\* a loop whose inner handlers let a blob or directory failure escape: the
\* sweep would end at the failing job
rest_of_loop_aborting(old, j, outcome) ==
    IF outcome \in {"blob_error", "dir_error"} THEN {} ELSE old \ {j}

\* _cleanup_old_jobs line 90, the jobs the for loop still has to handle after
\* its pass for j: every exception of the pass is caught inside the loop
\* (lines 110, 119, 124), so whatever the outcome the loop goes on
rest_of_loop(old, j, outcome) == old \ {j}

\* _cleanup_old_jobs lines 90-126, one pass of the loop: delete the record,
\* the blobs and the local directory of one job of the list; if delete_one
\* raises, the job is counted as an error and left as it is
SweepJob(j) ==
    /\ spc = "sweeping"
    /\ j \in old_jobs
    /\ \E outcome \in {"ok", "record_error", "blob_error", "dir_error"} :
          /\ IF outcome = "record_error"
             THEN UNCHANGED <<jobs, blobs, dirs>>
             ELSE jobs' = delete_one(jobs, j) /\ DeleteFiles(j, outcome)
          /\ IF outcome = "ok" THEN ProgramStep ELSE ExternalEvent
          /\ old_jobs' = rest_of_loop(old_jobs, j, outcome)
          /\ swept' = Append(swept, <<j, outcome>>)
    /\ spc' = IF old_jobs' = {} THEN "idle" ELSE "sweeping"
    /\ found' = IF old_jobs' = {} THEN {} ELSE found
    /\ UNCHANGED <<files, nextId, now, proc, worker, cancelReq, hist>>

\* ------------------------------------------- parsing the submitted file
\* a line of a text file: pad says it has blanks around its text, text is
\* the identifier it holds, 0 for none
Lines == [pad : BOOLEAN, text : 0..MaxParcels]
TxtFiles == UNION {[1..n -> Lines] : n \in 0..MaxLines}

\* str.strip of a line: the text without the blanks
strip(line) == line.text

\* file_parser.parse_txt: [line.strip() for line in lines if line.strip()]
parse_txt(content) ==
    LET kept == SelectSeq(content, LAMBDA line : strip(line) # 0)
    IN  [i \in 1..Len(kept) |-> strip(kept[i])]

\* file_parser.validate_parcel_ids: the two checks that raise HTTP 400, then
\* the removal of duplicates
validate_parcel_ids_or_raise(parcel_ids, max_count) ==
    IF parcel_ids = <<>> THEN Raises("No parcel IDs found in file")
    ELSE IF Len(parcel_ids) > max_count THEN Raises("Too many parcel IDs")
    ELSE Returns(validate_parcel_ids(parcel_ids))

\* create_parcel_job line 106 for a text file: parse_parcel_file -> parse_txt
ParseTxt ==
    /\ call.fn = "parse_txt"
    /\ call' = [fn |-> "validate_parcel_ids",
                parcel_ids |-> parse_txt(call.content),
                max_count |-> call.max_count]
    /\ UNCHANGED <<result, world>>

\* create_parcel_job line 108
ValidateParcelIds ==
    /\ call.fn = "validate_parcel_ids"
    /\ result = NoResult
    /\ result' = validate_parcel_ids_or_raise(call.parcel_ids, call.max_count)
    /\ UNCHANGED <<call, world>>

InitValidate ==
    /\ InitProgram
    /\ InitWorld
    /\ call \in {[fn |-> "parse_txt", content |-> c, max_count |-> m] :
                     c \in TxtFiles, m \in 1..MaxCount}
    /\ result = NoResult

NextValidate == ParseTxt \/ ValidateParcelIds

\* one call of parse_txt and validate_parcel_ids on a file of at most
\* MaxLines lines
SpecValidate == InitValidate /\ [][NextValidate]_vars

\* ------------------------------------------------- the key of a parcel
\* a string is the sequence of its characters
Digits == {"0", "1", "2", "3", "4", "5", "6", "7", "8", "9"}
Blank == " "

\* the pieces identifiers are made of: a digit, a hyphen, a letter, a blank,
\* and two digits followed by a hyphen
Chunks == {<<"1">>, <<"-">>, <<"A">>, <<Blank>>, <<"2", "8", "-">>}

RECURSIVE Concatenations(_)
Concatenations(n) ==
    IF n = 0 THEN {<<>>}
    ELSE LET shorter == Concatenations(n - 1)
         IN  shorter \cup {s \o c : s \in shorter, c \in Chunks}

\* the IDPARCEL and the text of the example of the docstring of
\* extract_parcel_id, and a text that is no parcel number
IdParcelExample ==
    <<"1", "4", "0", "0", "8", "1", "6", "9", "2", "8", "-", "0", "8", "-", "2", "2", "-", "4", "4", "2", "-", "0", "2", "3", ".", "0", "0", "0", "-", "0", "2", "5">>
ExcelExample ==
    <<"2", "8", "-", "0", "8", "-", "2", "2", "-", "4", "4", "2", "-", "0", "2", "3", ".", "0", "0", "0", "-", "0", "2", "5">>
NotAParcel == <<"N", "O", "T", "A", "P", "A", "R", "C", "E", "L">>

IdParcels == Concatenations(MaxChunks) \cup {IdParcelExample, ExcelExample, NotAParcel}

\* str.strip of a string: without its leading and trailing blanks
RECURSIVE str_strip(_)
str_strip(s) ==
    IF s = <<>> THEN s
    ELSE IF Head(s) = Blank THEN str_strip(Tail(s))
    ELSE IF s[Len(s)] = Blank THEN str_strip(SubSeq(s, 1, Len(s) - 1))
    ELSE s

\* the pattern \d{2}-\d{2}-\d{2}- matches s at position i
pattern_at(s, i) ==
    /\ i + 8 <= Len(s)
    /\ \A k \in {0, 1, 3, 4, 6, 7} : s[i + k] \in Digits
    /\ \A k \in {2, 5, 8} : s[i + k] = "-"

\* a search that returns the start of the last match
re_search_last(s) ==
    LET starts == {i \in 1..Len(s) : pattern_at(s, i)}
    IN  IF starts = {} THEN 0 ELSE CHOOSE i \in starts : \A k \in starts : k <= i

\* re.search(r'\d{2}-\d{2}-\d{2}-', s): the start of the leftmost match, 0
\* for no match
re_search(s) ==
    LET starts == {i \in 1..Len(s) : pattern_at(s, i)}
    IN  IF starts = {} THEN 0 ELSE CHOOSE i \in starts : \A k \in starts : i <= k

\* label_exporter.extract_parcel_id
extract_parcel_id(idparcel) ==
    LET idparcel_str == str_strip(idparcel)
        match == re_search(idparcel_str)
    IN  IF match # 0 THEN SubSeq(idparcel_str, match, Len(idparcel_str))
        ELSE idparcel_str

ExtractParcelId ==
    /\ call.fn = "extract_parcel_id"
    /\ result = NoResult
    /\ result' = Returns(extract_parcel_id(call.idparcel))
    /\ UNCHANGED <<call, world>>

InitKey ==
    /\ InitProgram
    /\ InitWorld
    /\ call \in {[fn |-> "extract_parcel_id", idparcel |-> s] : s \in IdParcels}
    /\ result = NoResult

NextKey == ExtractParcelId

\* one call of extract_parcel_id on an identifier of at most MaxChunks pieces
SpecKey == InitKey /\ [][NextKey]_vars

\* ------------------------------------------------- the text of a label
\* a cell of the joined table: na is pandas' missing value, text the string
\* str(value) gives
Cell(text) == [na |-> FALSE, text |-> text]
NaN == [na |-> TRUE, text |-> <<"n", "a", "n">>]
pd_notna(v) == ~v.na

\* str.upper and str.lower on the letters the cells hold
UpperOf == [c \in {"a", "e", "h", "i", "m", "n", "o", "t"} |->
               CASE c = "a" -> "A" [] c = "e" -> "E" [] c = "h" -> "H" [] c = "i" -> "I"
                 [] c = "m" -> "M" [] c = "n" -> "N" [] c = "o" -> "O" [] c = "t" -> "T"]
str_upper(s) == [i \in 1..Len(s) |-> IF s[i] \in DOMAIN UpperOf THEN UpperOf[s[i]] ELSE s[i]]
str_lower(s) ==
    [i \in 1..Len(s) |->
        IF \E c \in DOMAIN UpperOf : UpperOf[c] = s[i]
        THEN CHOOSE c \in DOMAIN UpperOf : UpperOf[c] = s[i]
        ELSE s[i]]

\* a split at the last slash
split_once_at_last(inst) ==
    LET at == CHOOSE i \in 1..Len(inst) :
                  inst[i] = "/" /\ \A k \in (i + 1)..Len(inst) : inst[k] # "/"
    IN  <<SubSeq(inst, 1, at - 1), SubSeq(inst, at + 1, Len(inst))>>

\* inst.split("/", 1) of a string that holds a slash: the text before the
\* first slash and the text after it
split_once(inst) ==
    LET at == CHOOSE i \in 1..Len(inst) :
                  inst[i] = "/" /\ \A k \in 1..(i - 1) : inst[k] # "/"
    IN  <<SubSeq(inst, 1, at - 1), SubSeq(inst, at + 1, Len(inst))>>

\* "\n".join(parts); the pieces an f-string writes are single elements
RECURSIVE join_lines(_)
join_lines(parts) ==
    IF parts = <<>> THEN <<>>
    ELSE IF Len(parts) = 1 THEN parts[1]
    ELSE parts[1] \o <<"\n">> \o join_lines(Tail(parts))

\* the first column of cols that the record has with a value, <<>> for none
first_column(rec, cols) ==
    SelectSeq(cols, LAMBDA col : col \in DOMAIN rec /\ pd_notna(rec[col]))

\* label_exporter.build_label
build_label(rec) ==
    LET parcel == first_column(rec, <<"PARCELID_JOIN", "Parcel ID">>)
        owner_col == first_column(rec, <<"Owner Name", "Name", "owner_name">>)
        inst_col == first_column(rec,
                        <<"Document/Instrument", "Inst. # -or- book/page", "document_id">>)
        inst == IF inst_col = <<>> THEN <<>> ELSE str_strip(rec[inst_col[1]].text)
        parts ==
            (IF parcel # <<>> THEN <<<<"PARCEL# ">> \o rec[parcel[1]].text>> ELSE <<>>)
            \o (IF owner_col # <<>> THEN <<str_upper(rec[owner_col[1]].text)>> ELSE <<>>)
            \o (IF inst # <<>> /\ str_lower(inst) # <<"n", "a", "n">>
                THEN IF \E i \in 1..Len(inst) : inst[i] = "/"
                     THEN <<<<"BK. ">> \o str_strip(split_once(inst)[1]) \o <<", PG. ">>
                               \o str_strip(split_once(inst)[2])>>
                     ELSE <<<<"INST# ">> \o inst>>
                ELSE <<>>)
    IN  join_lines(parts)

\* the cells of the joined records the labels are built from
OwnerNames == {NaN, Cell(<<"S", "m", "i", "t", "h">>)}
OtherNames == {NaN, Cell(<<"D", "o", "e">>)}
Instruments ==
    {NaN, Cell(<<>>), Cell(<<Blank>>), Cell(<<"n", "a", "n">>), Cell(<<"N", "a", "N">>), Cell(<<"1", "2", "3">>), Cell(<<" ", "1", "2", "3", " ">>),
     Cell(<<"1", "2", "/", "3", "4">>), Cell(<<"1", "2", " ", "/", " ", "3", "4">>), Cell(<<"1", "/", "2", "/", "3">>)}
DocumentIds == {NaN, Cell(<<"7", "7">>)}

\* LabelExporter: the rows of the table joined on PARCELID_JOIN, whose key
\* column holds what extract_parcel_id returned
JoinedRows ==
    {[col \in {"PARCELID_JOIN", "Owner Name", "Name", "Document/Instrument", "document_id"} |->
        CASE col = "PARCELID_JOIN" -> Cell(key)
          [] col = "Owner Name" -> owner
          [] col = "Name" -> other
          [] col = "Document/Instrument" -> inst
          [] col = "document_id" -> doc] :
        key \in {ExcelExample, NotAParcel}, owner \in OwnerNames, other \in OtherNames,
        inst \in Instruments, doc \in DocumentIds}

BuildLabel ==
    /\ call.fn = "build_label"
    /\ result = NoResult
    /\ result' = Returns(build_label(call.rec))
    /\ UNCHANGED <<call, world>>

InitLabel ==
    /\ InitProgram
    /\ InitWorld
    /\ call \in {[fn |-> "build_label", rec |-> r] : r \in JoinedRows}
    /\ result = NoResult

NextLabel == BuildLabel

\* one call of build_label on a joined record
SpecLabel == InitLabel /\ [][NextLabel]_vars

\* ------------------------------------------------ the parts of an address
\* an address text is the sequence of its words and separators; the words of
\* one part are written with blanks between them
ZipWords == {"47462", "47424-0000"}     \* what \b(\d{5}(?:-\d{4})?)\b matches
StateWords == {"IN", "ST"}              \* what \b([A-Z]{2}) matches
OtherWords == {"123", "MAIN", "SPRINGVILLE", "BLOOMFIELD"}
Comma == ","
Newline == "\n"

AddressTexts ==
    UNION {[1..n -> {"123", "SPRINGVILLE", "IN", "47462", Comma, Newline}] : n \in 0..MaxTokens}
    \cup {<<"SPRINGVILLE", Comma, "IN", "47462">>,
          <<"123", "MAIN", "ST", Newline, "BLOOMFIELD", Comma, "IN", "47424-0000">>,
          <<"123", "MAIN", "ST", Comma, "BLOOMFIELD", Comma, "IN", "47462">>,
          <<"123", "MAIN", "ST">>}

\* address_text.replace('\n', ', ')
replace_newlines(text) == [i \in 1..Len(text) |-> IF text[i] = Newline THEN Comma ELSE text[i]]

\* re.search of the ZIP pattern: the first word it matches, "" for none
zip_match(text) ==
    LET at == {i \in 1..Len(text) : text[i] \in ZipWords}
    IN  IF at = {} THEN "" ELSE text[CHOOSE i \in at : \A k \in at : i <= k]

\* address_text.replace(zip, ''): every occurrence of the word is removed
remove_word(text, word) == SelectSeq(text, LAMBDA w : w # word)

\* re.search(r'\b([A-Z]{2})\s*,?\s*$'): the position of a two-letter word
\* that ends the text, one comma at most after it; 0 for none
state_match(text) ==
    LET n == Len(text)
    IN  IF n >= 1 /\ text[n] \in StateWords THEN n
        ELSE IF n >= 2 /\ text[n] = Comma /\ text[n - 1] \in StateWords THEN n - 1
        ELSE 0

\* [p.strip() for p in address_text.split(',') if p.strip()]
RECURSIVE split_commas(_)
split_commas(text) ==
    IF \A i \in 1..Len(text) : text[i] # Comma
    THEN IF text = <<>> THEN <<>> ELSE <<text>>
    ELSE LET at == CHOOSE i \in 1..Len(text) :
                       text[i] = Comma /\ \A k \in 1..(i - 1) : text[k] # Comma
         IN  (IF at = 1 THEN <<>> ELSE <<SubSeq(text, 1, at - 1)>>)
             \o split_commas(SubSeq(text, at + 1, Len(text)))

\* BeaconScraper._parse_address
parse_address(address_text) ==
    LET text1 == replace_newlines(address_text)
        zip == zip_match(text1)
        text2 == IF zip # "" THEN remove_word(text1, zip) ELSE text1
        state_at == state_match(text2)
        text3 == IF state_at # 0 THEN SubSeq(text2, 1, state_at - 1) ELSE text2
        parts == split_commas(text3)
    IN  [street |-> IF Len(parts) >= 1 THEN parts[1] ELSE <<>>,
         city |-> IF Len(parts) >= 2 THEN parts[Len(parts)] ELSE <<>>,
         state |-> IF state_at # 0 THEN text2[state_at] ELSE "",
         zip |-> zip]

ParseAddress ==
    /\ call.fn = "_parse_address"
    /\ result = NoResult
    /\ result' = Returns(parse_address(call.address_text))
    /\ UNCHANGED <<call, world>>

InitAddress ==
    /\ InitProgram
    /\ InitWorld
    /\ call \in {[fn |-> "_parse_address", address_text |-> t] : t \in AddressTexts}
    /\ result = NoResult

NextAddress == ParseAddress

\* one call of _parse_address on an address of at most MaxTokens words and
\* separators, or on one of the addresses written out above
SpecAddress == InitAddress /\ [][NextAddress]_vars

\* --------------------------------------------- downloading the documents
\* BeaconScraper._download_prc and wthgis_scraper.download_report_card, the
\* downloaders of the two scrapers.  A document path is absent, empty (the
\* file is open for writing and nothing is written yet), partial (a part of
\* the response is written) or complete.
Downloaders == {"_download_prc", "download_report_card"}
DocPaths == 1..MaxDocs

\* os.path.join(pdfs_dir, pdf_filename)
path_of(p) == <<"property_cards", p>>

\* a test that no file passes
already_downloaded_never(content) == FALSE

\* os.path.exists(output_path) and os.path.getsize(output_path) > 0
already_downloaded(content) == content \in {"partial", "complete"}

\* the scrape loop calls the downloader for the document of a parcel
DownloadCall ==
    /\ call = NoCall \/ (call.fn \in Downloaders /\ call.at = "done")
    /\ \E fn \in Downloaders, p \in DocPaths :
          call' = [fn |-> fn, output_path |-> p, at |-> "check", fetched |-> FALSE]
    /\ result' = NoResult
    /\ UNCHANGED world

\* the first lines of both: return the path of a file that is there and not
\* empty, go on to the delay otherwise
DownloadCheck ==
    /\ call.fn \in Downloaders
    /\ call.at = "check"
    /\ IF already_downloaded(disk[call.output_path])
       THEN /\ result' = Returns(path_of(call.output_path))
            /\ call' = [call EXCEPT !.at = "done"]
       ELSE /\ call' = [call EXCEPT !.at = "sleep"]
            /\ UNCHANGED result
    /\ UNCHANGED world

\* time.sleep(random.uniform(...)) and human_sleep("pdf", ...)
DownloadSleep ==
    /\ call.fn \in Downloaders
    /\ call.at = "sleep"
    /\ net.gets < MaxRequests
    /\ net' = [net EXCEPT !.sleeps = @ + 1]
    /\ call' = [call EXCEPT !.at = "get"]
    /\ UNCHANGED <<result, disk, program>>

\* session.get(url, timeout=45) and raise_for_status(): the response, or an
\* exception that leaves the downloader
DownloadGet ==
    /\ call.fn \in Downloaders
    /\ call.at = "get"
    /\ net' = [net EXCEPT !.gets = @ + 1]
    /\ \/ /\ call' = [call EXCEPT !.at = "open", !.fetched = TRUE]
          /\ UNCHANGED result
       \/ /\ call' = [call EXCEPT !.at = "done", !.fetched = TRUE]
          /\ result' = Raises("HTTPError")
    /\ UNCHANGED <<disk, program>>

\* open(output_path, 'wb'): the file is created, or cut to no content
DownloadOpen ==
    /\ call.fn \in Downloaders
    /\ call.at = "open"
    /\ disk' = [disk EXCEPT ![call.output_path] = "empty"]
    /\ call' = [call EXCEPT !.at = "write"]
    /\ UNCHANGED <<result, net, program>>

\* f.write(response.content): the content reaches the file part after part
DownloadWrite ==
    /\ call.fn \in Downloaders
    /\ call.at = "write"
    /\ \/ /\ disk[call.output_path] = "empty"
          /\ disk' = [disk EXCEPT ![call.output_path] = "partial"]
          /\ UNCHANGED <<call, result>>
       \/ /\ disk[call.output_path] = "partial"
          /\ disk' = [disk EXCEPT ![call.output_path] = "complete"]
          /\ call' = [call EXCEPT !.at = "done"]
          /\ result' = Returns(path_of(call.output_path))
    /\ UNCHANGED <<net, program>>

\* the process stops while the job runs; after the startup recovery the
\* worker runs the job again, with the folder as the stop left it
DownloadInterrupted ==
    /\ call.fn \in Downloaders
    /\ net.runs < MaxRuns
    /\ net' = [net EXCEPT !.runs = @ + 1]
    /\ call' = NoCall
    /\ result' = NoResult
    /\ UNCHANGED <<disk, program>>

InitDownload == InitProgram /\ InitWorld /\ call = NoCall /\ result = NoResult

NextDownload ==
    \/ DownloadCall
    \/ DownloadCheck
    \/ DownloadSleep
    \/ DownloadGet
    \/ DownloadOpen
    \/ DownloadWrite
    \/ DownloadInterrupted

\* the downloads of the documents of one job, over its runs
SpecDownload == InitDownload /\ [][NextDownload]_vars

\* ------------------------------------------------- the loop over parcels
\* BeaconScraper.scrape_parcels and WTHGISScraper.scrape_parcels: one pass
\* of the loop per identifier.  A row of the spreadsheet holds whether the
\* scraped attributes are written (attrs), its Report Card Path cell (prc),
\* its Status and Notes cells, and how often the downloader was called for
\* its parcel (downloads).
Scrapers == {"beacon", "wthgis"}

\* what can happen to a parcel: its page is found and its document is
\* downloaded, found without a document link, found and the download raises,
\* not found by the search, or an exception before any attribute is written
ParcelOutcomes == {"downloaded", "no_document", "download_error", "not_found", "error"}

\* the row BeaconScraper.scrape_parcels leaves for a parcel
beacon_row(outcome) ==
    CASE outcome = "downloaded" ->
            [attrs |-> TRUE, prc |-> "path", status |-> "SUCCESS", notes |-> "", downloads |-> 1]
      [] outcome = "no_document" ->
            [attrs |-> TRUE, prc |-> "", status |-> "SUCCESS", notes |-> "", downloads |-> 0]
      [] outcome = "download_error" ->
            [attrs |-> TRUE, prc |-> "ERROR", status |-> "SUCCESS", notes |-> "", downloads |-> 1]
      [] outcome = "not_found" ->
            [attrs |-> FALSE, prc |-> "", status |-> "NOT_FOUND", notes |-> "", downloads |-> 0]
      [] outcome = "error" ->
            [attrs |-> FALSE, prc |-> "", status |-> "ERROR", notes |-> "", downloads |-> 0]

\* a handler that clears the row of a parcel whose download raised
wthgis_row_cleared(outcome) ==
    CASE outcome \in {"downloaded", "no_document"} ->
            [attrs |-> TRUE, prc |-> "path", status |-> "SUCCESS", notes |-> "", downloads |-> 1]
      [] outcome = "download_error" ->
            [attrs |-> FALSE, prc |-> "", status |-> "FAILED", notes |-> "error", downloads |-> 1]
      [] outcome = "not_found" ->
            [attrs |-> FALSE, prc |-> "", status |-> "LOOKUP_FAILED", notes |-> "lookup",
             downloads |-> 0]
      [] outcome = "error" ->
            [attrs |-> FALSE, prc |-> "", status |-> "FAILED", notes |-> "error", downloads |-> 0]

\* the row WTHGISScraper.scrape_parcels leaves for a parcel; it builds the
\* document URL itself, so every parcel it finds has a document
wthgis_row(outcome) ==
    CASE outcome \in {"downloaded", "no_document"} ->
            [attrs |-> TRUE, prc |-> "path", status |-> "SUCCESS", notes |-> "", downloads |-> 1]
      [] outcome = "download_error" ->
            [attrs |-> TRUE, prc |-> "", status |-> "FAILED", notes |-> "error", downloads |-> 1]
      [] outcome = "not_found" ->
            [attrs |-> FALSE, prc |-> "", status |-> "LOOKUP_FAILED", notes |-> "lookup",
             downloads |-> 0]
      [] outcome = "error" ->
            [attrs |-> FALSE, prc |-> "", status |-> "FAILED", notes |-> "error", downloads |-> 0]

\* one pass of the for loop: the row of the next identifier is written and
\* the loop goes on, whatever happened to the parcel
ScrapePass ==
    /\ call.fn = "scrape_parcels"
    /\ result = NoResult
    /\ Len(call.rows) < call.total
    /\ \E outcome \in ParcelOutcomes :
          call' = [call EXCEPT !.rows = Append(@,
                      IF call.scraper = "beacon" THEN beacon_row(outcome)
                      ELSE wthgis_row(outcome))]
    /\ UNCHANGED <<result, world>>

\* after the last pass: the final save and the return of the paths and counts
ScrapeReturn ==
    /\ call.fn = "scrape_parcels"
    /\ result = NoResult
    /\ Len(call.rows) = call.total
    /\ result' = Returns(<<"excel_path", "pdfs_dir">>)
    /\ UNCHANGED <<call, world>>

InitScrape ==
    /\ InitProgram
    /\ InitWorld
    /\ call \in {[fn |-> "scrape_parcels", scraper |-> sc, total |-> n, rows |-> <<>>] :
                     sc \in Scrapers, n \in 1..MaxScraped}
    /\ result = NoResult

NextScrape == ScrapePass \/ ScrapeReturn

\* one call of scrape_parcels of either scraper on a file of at most
\* MaxScraped identifiers
SpecScrape == InitScrape /\ [][NextScrape]_vars

\* ------------------------------------------------- the join of the export
\* LabelExporter.export: the keys of the spreadsheet are joined with the keys
\* of the shapefile.  df is the spreadsheet, a record of columns of which
\* "Alternate ID" may be missing; gdf is the set of IDPARCEL values of the
\* shapefile.
KeyCells == {Cell(<<"A">>), Cell(<<Blank, "A">>), Cell(<<"B">>), NaN}
ShapeIdParcels == {<<"A">>, <<"B", Blank>>, <<"C">>}

\* Series.astype(str): a missing cell becomes the text nan
astype_str(v) == v.text

\* set(df[column].astype(str).str.strip())
join_keys(column) == {str_strip(astype_str(column[i])) : i \in DOMAIN column}

\* set(gdf[parcel_col_shp].apply(extract_parcel_id))
shape_keys(gdf) == {extract_parcel_id(s) : s \in gdf}

\* an export that never looks at the Alternate ID column
join_column_never_alternate(df, gdf) == "Parcel ID"

\* the column PARCELID_JOIN is taken from
join_column(df, gdf) ==
    IF join_keys(df["Parcel ID"]) \cap shape_keys(gdf) = {} /\ "Alternate ID" \in DOMAIN df
    THEN "Alternate ID"
    ELSE "Parcel ID"

ExportJoin ==
    /\ call.fn = "export"
    /\ result = NoResult
    /\ LET col == join_column(call.df, call.gdf)
           matches == join_keys(call.df[col]) \cap shape_keys(call.gdf)
       IN  /\ call' = [call EXCEPT !.join = col]
           /\ result' = IF matches = {}
                        THEN Raises("No matching parcel IDs found between Excel and shapefile")
                        ELSE Returns(<<matches>>)
    /\ UNCHANGED world

Spreadsheets ==
    UNION {[{"Parcel ID"} -> [1..n -> KeyCells]] \cup
           [{"Parcel ID", "Alternate ID"} -> [1..n -> KeyCells]] : n \in 1..MaxRows}

InitExport ==
    /\ InitProgram
    /\ InitWorld
    /\ call \in {[fn |-> "export", df |-> df, gdf |-> gdf, join |-> ""] :
                     df \in Spreadsheets, gdf \in SUBSET ShapeIdParcels}
    /\ result = NoResult

NextExport == ExportJoin

\* one export on a spreadsheet of at most MaxRows rows
SpecExport == InitExport /\ [][NextExport]_vars

\* ------------------------------------------------- the document link
\* BeaconScraper._search_parcel: the choice among the links whose text holds
\* "Property Record Card".  A link is what re.search(r'(\d{4})', link_text)
\* finds in its text: no match (NoYear) or the year.
NoYear == 0
Years == {2022, 2023, 2024}
PrcLinks == UNION {[1..n -> Years \cup {NoYear}] : n \in 1..MaxLinks}

\* a comparison that lets every link with a year replace the one held
any_year(year, latest_year) == year > NoYear

\* year > latest_year
later(year, latest_year) == year > latest_year

\* the for loop over prc_links from link i on: latest_prc is the position of
\* the link held so far (0 for None)
RECURSIVE select_prc(_, _, _, _)
select_prc(prc_links, i, latest_prc, latest_year) ==
    IF i > Len(prc_links) THEN latest_prc
    ELSE IF prc_links[i] # NoYear
         THEN IF later(prc_links[i], latest_year)
              THEN select_prc(prc_links, i + 1, i, prc_links[i])
              ELSE select_prc(prc_links, i + 1, latest_prc, latest_year)
         ELSE IF latest_prc = 0
              THEN select_prc(prc_links, i + 1, i, latest_year)
              ELSE select_prc(prc_links, i + 1, latest_prc, latest_year)

SelectPrc ==
    /\ call.fn = "select_prc"
    /\ result = NoResult
    /\ result' = Returns(<<select_prc(call.prc_links, 1, 0, 0)>>)
    /\ UNCHANGED <<call, world>>

InitSelect ==
    /\ InitProgram
    /\ InitWorld
    /\ call \in {[fn |-> "select_prc", prc_links |-> links] : links \in PrcLinks}
    /\ result = NoResult

NextSelect == SelectPrc

\* the choice of the document link on a page of at most MaxLinks links
SpecSelect == InitSelect /\ [][NextSelect]_vars

\* ------------------------------------------------- the scraped columns
\* the header under which each scraper stores the instrument or document
\* number of a parcel: _create_excel_template of the beacon scraper, the
\* headers list of the WTHGIS scraper
instrument_header(scraper) ==
    IF scraper = "beacon" THEN "Document Number" ELSE "Document/Instrument"

\* the records LabelExporter.export joins from the spreadsheet of a scraper:
\* the key, the Parcel ID, Owner Name and instrument columns of the sheet
ScrapedRows(scraper) ==
    {[col \in {"PARCELID_JOIN", "Parcel ID", "Owner Name", instrument_header(scraper)} |->
        CASE col \in {"PARCELID_JOIN", "Parcel ID"} -> Cell(key)
          [] col = "Owner Name" -> owner
          [] OTHER -> inst] :
        key \in {ExcelExample, NotAParcel}, owner \in OwnerNames, inst \in Instruments}

InitScrapedLabel ==
    /\ InitProgram
    /\ InitWorld
    /\ call \in UNION {{[fn |-> "build_label", rec |-> r, scraper |-> sc] :
                            r \in ScrapedRows(sc)} : sc \in Scrapers}
    /\ result = NoResult

\* build_label on the records of the spreadsheets the two scrapers write
SpecScrapedLabel == InitScrapedLabel /\ [][NextLabel]_vars

\* every step but the submissions
Run ==
    \/ StartupRecovery
    \/ WorkerStart
    \/ ProcessStop
    \/ \E j \in JobIds : CancelCheck(j)
    \/ \E j \in JobIds : CancelWrite(j)
    \/ \E j \in JobIds : DeleteJob(j)
    \/ Claim
    \/ CheckCancelledBeforeStart
    \/ StatusParsing
    \/ StatusScraping
    \/ ScrapeParcel
    \/ CheckCancelledAfterScrape
    \/ StatusExporting
    \/ Export
    \/ StatusUploading
    \/ UploadResults
    \/ Complete
    \/ StepRaises
    \/ Fail
    \/ FailWriteRaises
    \/ LocalFilesMissing

\* the steps of the cleanup scheduler and of the time that makes jobs old
Sweep ==
    \/ RetentionElapses
    \/ SweepFind
    \/ \E j \in JobIds : SweepJob(j)

\* behaviours shorter than the retention period: no job gets old
Next == CreateJob \/ Run

Spec == Init /\ [][Next]_vars

\* behaviours in which jobs get old and the cleanup scheduler deletes them;
\* the submitted files hold one identifier
NextSweep == CreateJobOneParcel \/ Run \/ Sweep

SpecSweep == Init /\ [][NextSweep]_vars

\* delete_job next to the worker thread: the worker takes steps between the
\* removal of the blobs and the removal of the local directory
DeleteInSteps ==
    \/ \E j \in JobIds : DeleteJobBlobs(j)
    \/ \E j \in JobIds : DeleteJobDir(j)

NextDelete == CreateJobOneParcel \/ Run \/ DeleteInSteps

SpecDelete == Init /\ [][NextDelete]_vars

\* the steps of the worker thread: the while loop of _run and the job it
\* is processing
Worker ==
    \/ Claim
    \/ CheckCancelledBeforeStart
    \/ StatusParsing
    \/ StatusScraping
    \/ ScrapeParcel
    \/ CheckCancelledAfterScrape
    \/ StatusExporting
    \/ Export
    \/ StatusUploading
    \/ UploadResults
    \/ Complete
    \/ StepRaises
    \/ Fail
    \/ FailWriteRaises
    \/ LocalFilesMissing

\* the behaviours of jobs of one parcel in which the worker thread is not
\* starved: while the process is up its loop polls again after poll_interval
\* and every step of the job it runs returns or raises
NextLive == CreateJobOneParcel \/ Run

SpecLive == Init /\ [][NextLive]_vars /\ WF_vars(Worker)

\* one submission, whose parcel file repeats an identifier
NextRepeating == CreateJobRepeating \/ Run

SpecRepeating == Init /\ [][NextRepeating]_vars

\* ------------------------------------------------------------------ claims
Existing == DOMAIN jobs
Processing == {j \in Existing : jobs[j].status = "processing"}
ClaimStep == wpc = "idle" /\ wpc' = "check_start"

\* C1: whenever the worker claims a job, the claimed job was pending and no
\* pending job had a smaller created_at; of two pending jobs with different
\* created_at the later one is never the one claimed.
C1_ClaimsOldestPending ==
    [][ClaimStep =>
          /\ wjob' \in PendingIds(jobs)
          /\ \A k \in PendingIds(jobs) : jobs[wjob'].created_at <= jobs[k].created_at
          /\ \A a, b \in PendingIds(jobs) :
                jobs[a].created_at < jobs[b].created_at => wjob' # b]_vars

\* C1 witness: the worker has just claimed a job while a pending job created
\* later waited.
C1_Witness == wpc = "check_start" /\ passedOver

\* C2: a job whose status is completed or failed never changes status.
C2_TerminalStatusIsFinal ==
    [][\A j \in Existing \cap DOMAIN jobs' :
          jobs[j].status \in {"completed", "failed"}
              => jobs'[j].status = jobs[j].status]_vars

\* C3: once a job's status is cancelled, no write changes it to another status.
C3_CancelledNotReverted ==
    [][\A j \in Existing \cap DOMAIN jobs' :
          jobs[j].status = "cancelled" => jobs'[j].status = "cancelled"]_vars

\* C4: after the status of the job being scraped is set to cancelled, at most
\* one more parcel is scraped.
C4_AtMostOneParcelAfterCancel == postCancel <= 1

\* C5: if cancelled is written on a job while the worker holds it, the worker
\* uploads no output blob for it afterwards, never records results on it, and
\* leaves it with status cancelled when it is done with it.
C5_CancelStopsTheJob ==
    [][wCancelled /\ phase' = "up" =>
          /\ wjob \in JobIds => blobs'[wjob] \subseteq blobs[wjob]
          /\ wjob \in DOMAIN jobs' => jobs'[wjob].results = {}
          /\ (wjob' # wjob /\ wjob \in DOMAIN jobs') => jobs'[wjob].status = "cancelled"]_vars

\* C6: at most one job record has status processing.
C6_AtMostOneProcessing == Cardinality(Processing) <= 1

\* C7: a pending job has started_at unset, empty results and no error message.
C7_PendingIsFresh ==
    \A j \in Existing :
        jobs[j].status = "pending"
            => ~jobs[j].started_at /\ jobs[j].results = {} /\ ~jobs[j].error_message

\* C8: a processing job has started_at set and completed_at unset.
C8_ProcessingShape ==
    \A j \in Existing :
        jobs[j].status = "processing" => jobs[j].started_at /\ ~jobs[j].completed_at

\* C9: a completed job has non-empty results, no error message and
\* completed_at set.
C9_CompletedShape ==
    \A j \in Existing :
        jobs[j].status = "completed"
            => jobs[j].results # {} /\ ~jobs[j].error_message /\ jobs[j].completed_at

\* C9 witness: a job has been marked completed.
C9_Witness == \E j \in Existing : jobs[j].status = "completed"

\* C10: a job carries an error message exactly when its status is failed, and
\* a failed job has completed_at set.
C10_ErrorIffFailed ==
    \A j \in Existing :
        /\ jobs[j].error_message <=> jobs[j].status = "failed"
        /\ jobs[j].status = "failed" => jobs[j].completed_at

\* C11: a job record has non-empty results only while its status is
\* completed.
C11_ResultsOnlyWhenCompleted ==
    \A j \in Existing : jobs[j].results # {} => jobs[j].status = "completed"

C13_CompletedAtMostTotal ==
    \A j \in Existing : jobs[j].parcels_completed <= jobs[j].parcel_count

\* C14: while a job's status is processing, no write lowers its completed or
\* failed count, also after the job was returned to pending and claimed again.
C14_CountsNonDecreasing ==
    [][\A j \in Existing \cap DOMAIN jobs' :
          jobs[j].status = "processing" /\ jobs'[j].status = "processing"
              => /\ jobs'[j].parcels_completed >= jobs[j].parcels_completed
                 /\ jobs'[j].parcels_failed >= jobs[j].parcels_failed]_vars

\* a pass of the scrape loop that ended with the parcel not found or in error
ParcelFailedStep ==
    wpc = "scrape" /\ widx' = widx + 1 /\ row' \in {"NOT_FOUND", "ERROR"}

\* C15: when a parcel is not found or raises, the outcome is on its row, the
\* failed count of the job record goes up by one and the loop goes on.
C15_ParcelFailureIsCounted ==
    [][ParcelFailedStep /\ wjob \in Existing =>
          /\ wpc' = "scrape"
          /\ jobs'[wjob].parcels_failed = jobs[wjob].parcels_failed + 1]_vars

\* C16: when a step of processing a claimed job has raised, the worker
\* leaves the job with status failed, an error message and completed_at set.
C16_RaisedStepEndsFailed ==
    [][wpc = "fail" /\ wpc' = "idle" /\ wjob \in DOMAIN jobs' =>
          /\ jobs'[wjob].status = "failed"
          /\ jobs'[wjob].error_message
          /\ jobs'[wjob].completed_at]_vars

\* a step of startup_event in which the update_many call returned
RecoveryStep == phase = "down" /\ phase' = "recovered" /\ events' = events

\* C17: startup recovery sets every processing job to pending, changes no
\* other field of those jobs and leaves every other job as it was.
C17_RecoveryFrame ==
    [][RecoveryStep =>
          /\ DOMAIN jobs' = DOMAIN jobs
          /\ \A j \in DOMAIN jobs :
                jobs'[j] = IF jobs[j].status = "processing"
                           THEN [jobs[j] EXCEPT !.status = "pending"]
                           ELSE jobs[j]]_vars

\* C17 witness: recovery has returned a claimed job to pending next to a job
\* in a final status.
C17_Witness ==
    /\ phase = "recovered"
    /\ \E j, k \in Existing :
          /\ jobs[j].status = "pending" /\ jobs[j].started_at
          /\ jobs[k].status \in {"completed", "failed", "cancelled"}

\* C18: running startup recovery a second time right after the first changes
\* nothing: twice in succession equals once.
C18_RecoveryIdempotent ==
    [][RecoveryStep =>
          update_many(jobs', "processing", [status |-> "pending"]) = jobs']_vars

\* C18 witness: recovery has just returned a claimed job to pending.
C18_Witness ==
    /\ phase = "recovered"
    /\ \E j \in Existing : jobs[j].status = "pending" /\ jobs[j].started_at

\* the step that ends a sweep of the cleanup scheduler
SweepEnds == spc = "sweeping" /\ spc' = "idle"

\* C19: when a retention sweep ends, no job it found old has a record left
\* or a blob left under jobs/<id>/.
C19_SweepLeavesNothing ==
    [][SweepEnds =>
          \A j \in found : j \notin DOMAIN jobs' /\ blobs'[j] = {}]_vars

\* a pass of the sweep loop that handles the job the worker holds
SweepsWorkerJob == spc = "sweeping" /\ wjob \in old_jobs /\ wjob \notin old_jobs'

\* C20: the retention sweeper changes neither the record nor the blobs nor
\* the local directory of the job the worker is processing.
C20_SweepSparesWorkerJob ==
    [][SweepsWorkerJob =>
          /\ wjob \in DOMAIN jobs => wjob \in DOMAIN jobs' /\ jobs'[wjob] = jobs[wjob]
          /\ blobs'[wjob] = blobs[wjob]
          /\ wjob \in dirs <=> wjob \in dirs']_vars

\* the blob or the directory deletion of some job failed in the sweep
SweepResourceFailure(log) ==
    \E i \in 1..Len(log) : log[i][2] \in {"blob_error", "dir_error"}

\* the jobs of the sweep whose delete_one call returned
RecordDeleteReturned(log) ==
    {log[i][1] : i \in {k \in 1..Len(log) : log[k][2] # "record_error"}}

\* C21: a failure while deleting the blobs or the local directory of one old
\* job does not stop the retention sweep: the sweep ends only when it has
\* made its pass for every job it found, and every job whose delete_one call
\* returned has no record left.
C21_ResourceFailureDoesNotStopSweep ==
    [][SweepEnds /\ SweepResourceFailure(swept') =>
          /\ {swept'[i][1] : i \in 1..Len(swept')} = found
          /\ \A j \in RecordDeleteReturned(swept') : j \notin DOMAIN jobs']_vars

\* a sweep of two jobs ended: the blob or directory deletion of the first
\* failed, the record of the second was deleted after that
C21_Witness ==
    /\ spc = "idle"
    /\ Len(swept) = 2
    /\ swept[1][2] \in {"blob_error", "dir_error"}
    /\ swept[2][2] = "ok"
    /\ swept[1][1] # swept[2][1]
    /\ {swept[1][1], swept[2][1]} \cap DOMAIN jobs = {}

\* the step of _process_job that asks get_scraper for the job's scraper
DispatchStep == wpc = "status_parse" /\ wpc' \in {"status_scrape", "fail"} /\ ProgramStep

\* C23: a job fails as an unsupported portal if and only if detect_platform
\* gave it the platform unknown; every other platform detect_platform can give
\* is dispatched to its scraper and the job starts scraping.
C23_UnsupportedIffUnknown ==
    [][DispatchStep =>
          (wpc' = "fail" <=> files[wjob].platform = "unknown")]_vars

\* the step of _process_job that runs _upload_results
UploadStep == wpc = "upload" /\ wpc' \in {"complete", "fail"}

\* the URL of a blob of the folder jobs/<j>/
FolderUrl(j, file) == <<"https", "container", "jobs", j, file>>

\* the results dict with the third key as the given one
ResultsWith(j, prc_key) ==
    {<<"excel_url", FolderUrl(j, "parcels_enriched.xlsx")>>,
     <<"dxf_url", FolderUrl(j, "labels.dxf")>>,
     <<prc_key, FolderUrl(j, "PRC.zip")>>}

\* every blob _upload_results writes is one of the three output names, under
\* the folder of the job the worker holds
UploadsStayInFolder ==
    UploadStep =>
        /\ \A j \in JobIds \ {wjob} : blobs'[j] = blobs[j]
        /\ blobs'[wjob] \ blobs[wjob] \subseteq {"parcels_enriched.xlsx", "labels.dxf", "PRC.zip"}

\* C24 as stated: the results of a completed job map excel_url, dxf_url and
\* prc_bundle_url to the URLs of jobs/<id>/parcels_enriched.xlsx,
\* jobs/<id>/labels.dxf and jobs/<id>/PRC.zip, and every blob the worker
\* uploads for a job lies under jobs/<id>/.
C24_ResultsKeysAsStated ==
    [][/\ UploadsStayInFolder
       /\ \A j \in DOMAIN jobs' :
             jobs'[j].status = "completed"
                 => jobs'[j].results = ResultsWith(j, "prc_bundle_url")]_vars

\* C24 amended: the same with the third key named prc_zip_url, the key
\* _upload_results writes and download_job_result reads.
C24_ResultsKeys ==
    [][/\ UploadsStayInFolder
       /\ \A j \in DOMAIN jobs' :
             jobs'[j].status = "completed"
                 => jobs'[j].results = ResultsWith(j, "prc_zip_url")]_vars

\* a job is completed with its three output blobs in its folder
C24_Witness ==
    \E j \in Existing :
        /\ jobs[j].status = "completed"
        /\ {"parcels_enriched.xlsx", "labels.dxf", "PRC.zip"} \subseteq blobs[j]
        /\ <<"prc_zip_url", FolderUrl(j, "PRC.zip")>> \in jobs[j].results

\* the step in which cancel_job writes cancelled on job j and answers that the
\* job was cancelled
CancelSucceeds(j) == cancelReq = j /\ cancelReq' = NoJob /\ phase' = "up"

\* C25: a cancel request succeeds only on an existing job whose status is
\* pending or processing; a completed, failed or cancelled job is left as it
\* is by a cancel request.
C25_CancelOnlyPendingOrProcessing ==
    [][\A j \in JobIds :
          CancelSucceeds(j) =>
              j \in DOMAIN jobs /\ jobs[j].status \in {"pending", "processing"}]_vars

\* the position of the first occurrence of x in the list ids
FirstAt(ids, x) == CHOOSE i \in 1..Len(ids) : ids[i] = x /\ \A k \in 1..(i - 1) : ids[k] # x

\* list out holds each identifier of ids once, in the order of the first
\* occurrences in ids
FirstOccurrences(ids, out) ==
    /\ {out[i] : i \in 1..Len(out)} = {ids[i] : i \in 1..Len(ids)}
    /\ \A i, k \in 1..Len(out) : i < k => FirstAt(ids, out[i]) < FirstAt(ids, out[k])

\* validate_parcel_ids has answered the call
Validated == call.fn = "validate_parcel_ids" /\ result # NoResult

\* C26: validate_parcel_ids raises for an empty list, raises the too-many
\* error for a list longer than max_count, and otherwise returns the
\* identifiers of the list once each in the order of their first
\* occurrence; what it returns is never longer than max_count.
C26_ValidateParcelIds ==
    Validated =>
        LET ids == call.parcel_ids
        IN  /\ ids = <<>> => result.raised = "No parcel IDs found in file"
            /\ Len(ids) > call.max_count => result.raised = "Too many parcel IDs"
            /\ ids # <<>> /\ Len(ids) <= call.max_count =>
                   /\ result.returned
                   /\ FirstOccurrences(ids, result.value)
            /\ result.returned => Len(result.value) <= call.max_count

\* a list within max_count that repeats an identifier was validated: the
\* answer is shorter than the list
C26_Witness ==
    /\ Validated
    /\ result.returned
    /\ Len(result.value) < Len(call.parcel_ids)

\* extract_parcel_id has answered the call
KeyDerived == call.fn = "extract_parcel_id" /\ result.returned

\* key is the part of the string s from the first position where two digits,
\* a hyphen, two digits, a hyphen, two digits and a hyphen occur, and s
\* itself when there is no such position
SuffixFromFirstPattern(s, key) ==
    IF \E i \in 1..Len(s) : pattern_at(s, i)
    THEN \E i \in 1..Len(s) :
            /\ pattern_at(s, i)
            /\ \A k \in 1..(i - 1) : ~pattern_at(s, k)
            /\ key = SubSeq(s, i, Len(s))
    ELSE key = s

\* the examples: 1400816928-08-22-442-023.000-025 gives
\* 28-08-22-442-023.000-025 and NOTAPARCEL is unchanged
KeyExamples ==
    /\ call.idparcel = IdParcelExample => result.value = ExcelExample
    /\ call.idparcel = NotAParcel => result.value = NotAParcel

\* C27 as stated: the key is the suffix of the identifier from the first
\* position of the pattern, and the identifier unchanged when the pattern
\* does not occur.
C27_KeyOfIdentifierAsStated ==
    KeyDerived => SuffixFromFirstPattern(call.idparcel, result.value) /\ KeyExamples

\* C27 amended: the same of the identifier without its leading and trailing
\* blanks.
C27_KeyOfStrippedIdentifier ==
    KeyDerived =>
        SuffixFromFirstPattern(str_strip(call.idparcel), result.value) /\ KeyExamples

\* the key of an identifier with digits before the pattern was derived, and
\* it is shorter than the identifier
C27_Witness ==
    /\ KeyDerived
    /\ ~pattern_at(call.idparcel, 1)
    /\ Len(result.value) < Len(call.idparcel)
    /\ pattern_at(result.value, 1)

\* build_label has answered the call
LabelBuilt == call.fn = "build_label" /\ result.returned

\* the owner and the instrument of a joined record: the first of its columns
\* that holds a value, NaN when none does
OwnerOf(r) ==
    IF pd_notna(r["Owner Name"]) THEN r["Owner Name"] ELSE r["Name"]
InstrumentOf(r) ==
    IF pd_notna(r["Document/Instrument"]) THEN r["Document/Instrument"] ELSE r["document_id"]

\* line is BK. <book>, PG. <page> for the instrument text inst, book being
\* what stands before its first slash and page what stands after it
IsBookPageLine(inst, line) ==
    \E i \in 1..Len(inst) :
        /\ inst[i] = "/"
        /\ \A k \in 1..(i - 1) : inst[k] # "/"
        /\ line = <<"BK. ">> \o str_strip(SubSeq(inst, 1, i - 1)) \o <<", PG. ">>
                      \o str_strip(SubSeq(inst, i + 1, Len(inst)))

\* the lines of a text: what stands between its newlines
RECURSIVE split_newlines(_)
split_newlines(text) ==
    IF \A i \in 1..Len(text) : text[i] # "\n" THEN <<text>>
    ELSE LET at == CHOOSE i \in 1..Len(text) :
                       text[i] = "\n" /\ \A k \in 1..(i - 1) : text[k] # "\n"
         IN  <<SubSeq(text, 1, at - 1)>> \o split_newlines(SubSeq(text, at + 1, Len(text)))

\* the instrument texts that give no line: the literal nan, and nan in any
\* letter case
LiteralNan(inst) == inst = <<"n", "a", "n">>
AnyCaseNan(inst) == str_lower(inst) = <<"n", "a", "n">>

\* lines are the lines of the label of record r, the instrument line being
\* left out for an empty instrument and for those IsNan accepts
LabelLines(r, lines, IsNan(_)) ==
    LET owner == OwnerOf(r)
        inst == str_strip(InstrumentOf(r).text)
        has_owner == pd_notna(owner)
        has_inst == pd_notna(InstrumentOf(r)) /\ inst # <<>> /\ ~IsNan(inst)
    IN  /\ Len(lines) = 1 + (IF has_owner THEN 1 ELSE 0) + (IF has_inst THEN 1 ELSE 0)
        /\ lines[1] = <<"PARCEL# ">> \o r["PARCELID_JOIN"].text
        /\ has_owner => lines[2] = str_upper(owner.text)
        /\ has_inst =>
              IF \E i \in 1..Len(inst) : inst[i] = "/"
              THEN IsBookPageLine(inst, lines[Len(lines)])
              ELSE lines[Len(lines)] = <<"INST# ">> \o inst

\* C28 as stated: the label is, joined by newlines, the line PARCEL# and the
\* key, the upper-cased owner name unless it is missing, and the instrument
\* line (BK. <book>, PG. <page> with a slash, INST# <value> without) unless
\* the instrument is missing, empty or the literal nan.
C28_LabelAsStated ==
    LabelBuilt => LabelLines(call.rec, split_newlines(result.value), LiteralNan)

\* C28 amended: the same, the instrument line being left out for nan in any
\* letter case.
C28_Label ==
    LabelBuilt => LabelLines(call.rec, split_newlines(result.value), AnyCaseNan)

\* a label of three lines whose last line is a book and page was built
C28_Witness ==
    /\ LabelBuilt
    /\ InstrumentOf(call.rec).text = <<"1", "2", " ", "/", " ", "3", "4">>
    /\ pd_notna(OwnerOf(call.rec))
    /\ Len(split_newlines(result.value)) = 3

\* _parse_address has answered the call
AddressParsed == call.fn = "_parse_address" /\ result.returned

\* the names of cities among the words of the addresses
CityWords == {"SPRINGVILLE", "BLOOMFIELD"}

\* the address is the name of a city, then a state and a ZIP, with a
\* comma at most between the part and the state
CityStateZip(text) ==
    /\ Len(text) >= 3
    /\ text[Len(text)] \in ZipWords
    /\ text[Len(text) - 1] \in StateWords
    /\ text[1] \in CityWords
    /\ \A i \in 1..(Len(text) - 2) :
          text[i] \in CityWords \/ (text[i] = Comma /\ i = Len(text) - 2)

\* C29: an address whose only part before the state is a city gives an empty
\* street and that city: SPRINGVILLE, IN 47462 gives street empty, city
\* SPRINGVILLE, state IN, zip 47462, and 123 MAIN ST\nBLOOMFIELD,IN 47424-0000
\* gives street 123 MAIN ST, city BLOOMFIELD, state IN, zip 47424-0000.
C29_CityOnlyAddress ==
    AddressParsed =>
        /\ call.address_text = <<"SPRINGVILLE", Comma, "IN", "47462">> =>
               result.value = [street |-> <<>>, city |-> <<"SPRINGVILLE">>,
                               state |-> "IN", zip |-> "47462"]
        /\ call.address_text =
                 <<"123", "MAIN", "ST", Newline, "BLOOMFIELD", Comma, "IN", "47424-0000">> =>
               result.value = [street |-> <<"123", "MAIN", "ST">>, city |-> <<"BLOOMFIELD">>,
                               state |-> "IN", zip |-> "47424-0000"]
        /\ CityStateZip(call.address_text) =>
               /\ result.value.street = <<>>
               /\ result.value.city = SelectSeq(call.address_text,
                       LAMBDA w : w \in CityWords)

\* the downloader is at its first lines with the target file there and not
\* empty, and the process goes on
CalledOnExistingFile ==
    /\ call.fn \in Downloaders
    /\ call.at = "check"
    /\ disk[call.output_path] \in {"partial", "complete"}
    /\ call' # NoCall

\* C22: called with a target file that exists and is not empty, the
\* downloader of either scraper makes no HTTP request, sleeps no delay,
\* leaves the file as it is and returns the path; the same in a re-run of
\* the job.
C22_ExistingFileIsReturned ==
    [][CalledOnExistingFile =>
          /\ result' = Returns(path_of(call.output_path))
          /\ call'.at = "done"
          /\ net' = net
          /\ disk' = disk]_vars

\* in a re-run of the job, the downloader returned the path of a complete
\* document without a request
C22_Witness ==
    /\ call.fn \in Downloaders
    /\ call.at = "done"
    /\ ~call.fetched
    /\ result = Returns(path_of(call.output_path))
    /\ disk[call.output_path] = "complete"
    /\ net.runs > 1

\* C30: at every moment each target path is absent or holds the complete
\* document, and the downloader never returns the path of a file that is not
\* the complete document.
C30_NoPartialFile ==
    /\ \A p \in DocPaths : disk[p] \in {"absent", "complete"}
    /\ (call.fn \in Downloaders /\ call.at = "done" /\ result.returned)
           => disk[call.output_path] = "complete"

\* scrape_parcels is running or has ended
Scraping == call.fn = "scrape_parcels"

\* the rows i-5..i are six parcels in a row that failed (more than K = 5)
SixFailuresUpTo(rows, i) ==
    /\ i >= 6
    /\ i <= Len(rows)
    /\ \A k \in (i - 5)..i : rows[k].status # "SUCCESS"

\* C31: when more than five parcels in a row fail, scrape_parcels stops
\* without trying the parcels that are left and does not return, so that the
\* job is marked failed.
C31_AbortsAfterConsecutiveFailures ==
    Scraping =>
        \A i \in 1..Len(call.rows) :
            SixFailuresUpTo(call.rows, i) => Len(call.rows) = i /\ ~result.returned

\* the rows of the parcels whose document download raised
DownloadFailed(r) == r.downloads > 0 /\ r.prc # "path"

\* C32: the row of a parcel whose document download failed keeps the
\* scraped attributes and carries the download error, the downloader was
\* called once for it, and the loop goes on: scrape_parcels ends only after
\* the pass of the last identifier, and it returns.
C32_DownloadFailureKeepsRow ==
    Scraping =>
        /\ \A i \in 1..Len(call.rows) :
              DownloadFailed(call.rows[i]) =>
                  /\ call.rows[i].attrs
                  /\ call.rows[i].prc = "ERROR" \/ call.rows[i].notes = "error"
                  /\ call.rows[i].downloads = 1
        /\ result # NoResult => result.returned /\ Len(call.rows) = call.total

\* scrape_parcels returned after a download failed for a parcel that was not
\* the last one, and the parcel after it was scraped
C32_Witness ==
    /\ Scraping
    /\ result.returned
    /\ \E i \in 1..(Len(call.rows) - 1) :
          DownloadFailed(call.rows[i]) /\ call.rows[i + 1].status = "SUCCESS"

\* the export has joined, or has failed to
Exported == call.fn = "export" /\ result # NoResult

\* the keys of a column of the spreadsheet that the shapefile has too
CommonKeys(column) ==
    {k \in shape_keys(call.gdf) :
        \E i \in DOMAIN call.df[column] : str_strip(call.df[column][i].text) = k}

\* C33: the export joins on the parcel-id column, on the Alternate ID
\* column exactly when the parcel-id column has no key in common with the
\* shapefile and an Alternate ID column exists, and it fails exactly when
\* the column it used has no key in common with the shapefile.
C33_JoinColumn ==
    Exported =>
        /\ call.join \in {"Parcel ID", "Alternate ID"}
        /\ call.join = "Alternate ID" <=>
               (CommonKeys("Parcel ID") = {} /\ "Alternate ID" \in DOMAIN call.df)
        /\ result.raised # "" <=> CommonKeys(call.join) = {}
        /\ result.returned => result.value = <<CommonKeys(call.join)>>

\* an export that joined on the Alternate ID column
C33_Witness ==
    /\ Exported
    /\ result.returned
    /\ call.join = "Alternate ID"

\* a document link has been chosen
Selected == call.fn = "select_prc" /\ result.returned

\* the years the links of the page carry
YearsOf(links) == {links[i] : i \in DOMAIN links} \ {NoYear}

\* C34: when a link carries a year the link chosen carries the highest
\* year of the page, wherever it stands in the list, and when none does
\* the first link is chosen.
C34_LatestYearSelected ==
    Selected =>
        LET links == call.prc_links
            chosen == result.value[1]
        IN  /\ chosen \in DOMAIN links
            /\ YearsOf(links) # {} =>
                   /\ links[chosen] # NoYear
                   /\ \A y \in YearsOf(links) : links[chosen] >= y
            /\ YearsOf(links) = {} => chosen = 1

\* the highest year stands in the middle of the list, after a link without
\* a year and before an older one, and its link was chosen
C34_Witness ==
    /\ Selected
    /\ call.prc_links = <<NoYear, 2024, 2023>>
    /\ result.value = <<2>>

\* the job has ended, or its record is gone
Ended(j) == j \notin Existing \/ jobs[j].status \in {"completed", "failed", "cancelled"}

\* the process with its worker thread is running
WorkerRuns == phase = "up"

\* C35: a job the worker has claimed reaches completed, failed or
\* cancelled while the worker keeps running; it does not stay in processing.
C35_ClaimedJobEnds ==
    \A j \in JobIds :
        (WorkerRuns /\ wjob = j /\ j \in Processing) ~> (Ended(j) \/ ~WorkerRuns)

\* C36: a pending job is claimed by the worker, cancelled or deleted while
\* the worker keeps running, whatever happened to the jobs ahead of it.
C36_PendingJobIsClaimed ==
    \A j \in JobIds :
        (WorkerRuns /\ j \in PendingIds(jobs)) ~>
            (j \notin PendingIds(jobs) \/ ~WorkerRuns)

\* the worker has claimed a job submitted after one that failed
C36_Witness ==
    \E j \in Processing, k \in Existing :
        /\ wjob = j
        /\ jobs[k].status = "failed"
        /\ jobs[k].created_at < jobs[j].created_at

\* the reset of startup_event runs, whether its database call returns or not
RecoveryRuns == phase # "recovered" /\ phase' = "recovered"

\* C38: startup recovery runs while no worker of the process is running:
\* it is over before the first claim, so it never returns to pending a job
\* the worker of the same process has claimed; the worker claims only while
\* it runs no job, and the job it claims was pending, so no job is run twice
\* at the same time.
C38_RecoveryBeforeFirstClaim ==
    [][/\ RecoveryRuns => wpc = "off" /\ wjob = NoJob /\ wpc' = "off" /\ wjob' = NoJob
       /\ ClaimStep => /\ phase = "up"
                       /\ wjob = NoJob
                       /\ wjob' \in PendingIds(jobs)]_vars

\* the worker has claimed a job that a process before it had started to
\* scrape and that recovery returned to pending
C38_Witness ==
    /\ phase = "up"
    /\ wpc = "check_start"
    /\ wjob \in Processing
    /\ jobs[wjob].parcels_completed > 0

\* C39: the list of identifiers the scraper reads from the stored file of
\* a job is the validated list that was counted at submission: the same
\* identifiers in the same order, as many as the job's total parcel count.
C39_ScrapedListIsValidatedList ==
    \A j \in Existing :
        /\ read_parcel_ids(files[j]) = validate_parcel_ids(files[j].ids)
        /\ Len(read_parcel_ids(files[j])) = jobs[j].parcel_count

\* the worker finishes with the job it holds and goes back to polling
WorkerFinishes == wjob # NoJob /\ wjob' = NoJob /\ wpc' = "idle"

\* C37: when the worker finishes with a job whose record was deleted while
\* it was processing it, there is no record with that id and no blob under
\* jobs/<id>/.
C37_NothingLeftOfDeletedJob ==
    [][WorkerFinishes /\ wjob \notin DOMAIN jobs /\ cancelReq = NoJob =>
          wjob \notin DOMAIN jobs' /\ blobs'[wjob] = {}]_vars

\* the instrument a scraper stored for the record of the call
ScrapedInstrument == call.rec[instrument_header(call.scraper)]

\* the label holds an INST# line or a BK./PG. line
HasInstrumentLine(label) ==
    \E i \in 1..Len(label) : label[i] \in {"INST# ", "BK. "}

\* C40: the label of a record of either scraper whose instrument or
\* document number is not empty holds the instrument line.
C40_ScrapedInstrumentIsLabelled ==
    (/\ call.fn = "build_label"
     /\ result.returned
     /\ pd_notna(ScrapedInstrument)
     /\ str_strip(ScrapedInstrument.text) # <<>>
     /\ str_lower(str_strip(ScrapedInstrument.text)) # <<"n", "a", "n">>)
        => HasInstrumentLine(result.value)

====
